---- MODULE Spec2Model ----
(***************************************************************************)
(* Model of src/src/blockchain.js (class Blockchain): the in-memory chain, *)
(* the add-block protocol, whole-chain validation and the time-bounded     *)
(* ownership check of submitStar.                                          *)
(*                                                                         *)
(* Every method wraps its body in `new Promise(async (resolve, reject) =>  *)
(* ...)`.  The executor runs synchronously up to its first `await`; what   *)
(* follows the await is a continuation on the JavaScript microtask queue,  *)
(* which is FIFO.  The model keeps that queue explicitly: a client call is *)
(* one action (the synchronous part of the call), and RunMicrotask runs    *)
(* the continuation at the head of the queue.                              *)
(*                                                                         *)
(* block.js is not part of the sources; the Block class (constructor,      *)
(* validate) is modelled from the specification's description of it.       *)
(***************************************************************************)
EXTENDS Integers, Sequences, FiniteSets, TLC

\* ------------------------------------------------------------------ bounds
\* submitStar calls per behaviour of a client that awaits each call
MaxSubmits == 3

\* submitStar calls per behaviour of clients that do not wait for each other
MaxAttempts == 2

\* standalone validateChain calls per behaviour
MaxValidates == 1

\* clock advances per behaviour
MaxTicks == 2

\* external field overwrites per behaviour
MaxTampers == 1

\* calls of the read operations per behaviour
MaxReads == 1

\* ------------------------------------------------------- program constants
FreshnessWindow == 300

ExpiredError ==
  "Please submit a star within 5 minutes of the signature ownership verification."

UnverifiedError ==
  "The Message is not Verified"

InvalidChainError ==
  "Invalid Chain. Cannot Add this Block."

\* ------------------------------------------------------------- input sets
Addresses == {"A", "B"}

\* a star object, told apart by its story
Star(story) == <<"story", story>>

Stars == {Star("s1"), Star("s2")}

\* the clock is read at second 0, then just inside the freshness window, then
\* second by second
TickStep(clock) == IF clock = 0 THEN 299 ELSE 1

\* the second colon-separated field of a message: digits, or not a number
TimeFields ==
  {[num |-> TRUE, val |-> v] : v \in {0, 1}} \cup {[num |-> FALSE, val |-> 0]}

\* "<address>:<seconds>:starRegistry"
Message(a, f) == [addr |-> a, ts |-> f, tag |-> "starRegistry"]

\* the messages clients submit: challenges issued at second 0 for either
\* address, one issued at second 1, and one whose time field is not a number
Messages ==
  {Message(a, [num |-> TRUE, val |-> 0]) : a \in Addresses}
    \cup {Message("A", [num |-> TRUE, val |-> 1]), Message("A", [num |-> FALSE, val |-> 0])}

\* ---------------------------------------------------------- number helpers
\* JavaScript numbers as far as submitStar uses them: an integer or NaN
NaN == [nan |-> TRUE, val |-> 0]

Num(v) == [nan |-> FALSE, val |-> v]

\* parseInt(message.split(":")[1])
ParseInt(field) == IF field.num THEN Num(field.val) ELSE NaN

\* a - b on JavaScript numbers
Minus(a, b) == IF a.nan \/ b.nan THEN NaN ELSE Num(a.val - b.val)

\* a < n on JavaScript numbers: every comparison with NaN is false
LessThan(a, n) == (~a.nan) /\ a.val < n

\* currentTime - messageTime
Elapsed(currentTime, message) == Minus(Num(currentTime), ParseInt(message.ts))

\* ------------------------------------------------------------- signatures
\* A signature is what a wallet produced: the signing key's address and the
\* signed message.  A malformed signature is one the library cannot decode.
Malformed == [signer |-> "malformed", msg |-> [addr |-> "", ts |-> [num |-> FALSE, val |-> 0], tag |-> ""]]

Sign(signer, message) == [signer |-> signer, msg |-> message]

\* another message than m (same address, other time field)
OtherMessage(m) ==
  [m EXCEPT !.ts = IF m.ts.num /\ m.ts.val = 0 THEN [num |-> TRUE, val |-> 1]
                   ELSE [num |-> TRUE, val |-> 0]]

SignaturesFor(address, message) ==
  {Sign(s, message) : s \in Addresses}
    \cup {Sign(address, OtherMessage(message)), Malformed}

\* a verification that does not bind the signature to the address
VerifyIgnoringAddress(message, address, signature) ==
  IF signature = Malformed THEN "throw"
  ELSE IF signature.msg = message THEN "true" ELSE "false"

\* bitcoinMessage.verify(message, address, signature): "true" or "false", or
\* "throw" when the signature cannot be decoded
Verify(message, address, signature) ==
  IF signature = Malformed THEN "throw"
  ELSE IF signature.signer = address /\ signature.msg = message THEN "true" ELSE "false"

\* ------------------------------------------------------------------ blocks
NullHash == <<>>

\* Buffer.from(JSON.stringify(data)).toString("hex") and its inverse
Encode(data) == <<"hex", data>>

Decode(body) == body[2]

GenesisData == <<"data", "Genesis Block">>

StarData(address, star) == <<"owner", address, "star", star>>

\* new BlockClass.Block(data)
NewBlock(data) ==
  [hash |-> NullHash, height |-> 0, body |-> Encode(data), time |-> 0,
   previousBlockHash |-> NullHash]

\* SHA256(JSON.stringify(block)).toString() of a block whose hash field is
\* null: a collision-free digest of the remaining fields
SHA256(block) ==
  <<block.height, block.body, block.time, block.previousBlockHash>>

\* block.validate(): the stored hash equals the recomputed hash
Validate(block) == block.hash = SHA256(block)

\* ------------------------------------------------------------------- state
VARIABLES
  chain,     \* this.chain: the sequence of blocks (1-based here, 0-based in JS)
  height,    \* this.height
  tasks,     \* every _addBlock / validateChain invocation and where it stands
  queue,     \* the microtask queue: ids of tasks with a pending continuation
  now,       \* the wall clock, in seconds
  last,      \* the most recent client call and how its promise settled
  version,   \* number of mutations of the chain so far (pushes and overwrites)
  used,      \* how much of each budget the behaviour has spent
  reply      \* the most recent call of a lookup and what its promise resolved with

vars == <<chain, height, tasks, queue, now, last, version, used, reply>>

\* what the caller of _addBlock had established when it called it: whether
\* the challenge was younger than the window, whose key signed, and whether
\* the signature is over the submitted message
NoProof == [fresh |-> FALSE, signer |-> "", overMessage |-> FALSE]

ProofOf(message, signature, currentTime) ==
  [fresh |-> (message.ts.num /\ currentTime - message.ts.val < 300),
   signer |-> signature.signer,
   overMessage |-> (signature.msg = message)]

NoResult == [null |-> TRUE, errors |-> <<>>]

\* errorLog.length > 0 ? resolve(errorLog) : resolve(null)
Resolution(errorLog) ==
  IF Len(errorLog) > 0 THEN [null |-> FALSE, errors |-> errorLog]
  ELSE [null |-> TRUE, errors |-> <<>>]

\* the errors a caller reads off validateChain's resolved value
ErrorsOf(ret) == IF ret.null THEN <<>> ELSE ret.errors

TamperError(block) == <<"Tampering Detected - Invalid Block", block.height, block.hash>>

LinkError(block) == <<"Broken Chain - Invalid Link", block.height>>

\* self.chain.filter((b) => b.height === h)[0], as an index; 0 when undefined
FirstWithHeight(c, h) ==
  IF \E k \in 1..Len(c) : c[k].height = h
  THEN CHOOSE k \in 1..Len(c) :
         /\ c[k].height = h
         /\ \A j \in 1..(k - 1) : c[j].height # h
  ELSE 0

\* A task is one invocation of _addBlock or validateChain.  i, ok and errorLog
\* are validateChain's locals while it runs; ret is what it resolved with,
\* and clean tells that the chain was not modified between its start and its
\* end (ver is the chain's version when it started).
\*   pc: "sha"      _addBlock is suspended at `await SHA256(...)`
\*       "validate" validateChain is suspended at `await block.validate()`
\*       "stars"    getStarsByWalletAddress has callbacks suspended at
\*                  `await b.getBData()`; its promise is resolved already
\*       "then"     validateChain has resolved; _addBlock's .then callback is queued
\*       "resolved" / "rejected"  the task's promise has settled
\*       "threw"    the async executor threw: the promise stays pending for ever
NewTask(op, caller, proof, block) ==
  [op |-> op, caller |-> caller, proof |-> proof, block |-> block,
   digest |-> NullHash, pc |-> "sha", i |-> 0, ok |-> FALSE, errorLog |-> <<>>,
   ret |-> NoResult, returned |-> FALSE, ver |-> 0, clean |-> FALSE,
   address |-> "", bodies |-> <<>>, stars |-> <<>>]

\* _addBlock(block), lines 66-71 up to the await: the height, the time and the
\* link are read from the chain as it is at call time
AddBlockSync(op, caller, proof, block, c, clock) ==
  LET b1 == [block EXCEPT !.height = Len(c), !.time = clock]
      b2 == IF Len(c) > 0
            THEN [b1 EXCEPT !.previousBlockHash = c[Len(c)].hash]
            ELSE b1
  IN  [NewTask(op, caller, proof, b2) EXCEPT !.digest = SHA256(b2)]

\* validateChain(), the executor up to its first await: the iterator yields
\* chain[0] when there is one and block.validate() is evaluated
ValidateStart(t, c, v) ==
  IF Len(c) >= 1
  THEN [t EXCEPT !.pc = "validate", !.i = 1, !.ok = Validate(c[1]),
                 !.errorLog = <<>>, !.ver = v]
  ELSE [t EXCEPT !.pc = IF t.op = "validateChain" THEN "resolved" ELSE "then",
                 !.ret = Resolution(<<>>), !.returned = TRUE, !.clean = TRUE]

\* previousBlock is undefined at line 221 for the block at index t.i, so
\* `previousBlock.hash` throws a TypeError inside the async executor
LoopThrows(t, c) ==
  /\ t.ok
  /\ c[t.i].height > 0
  /\ FirstWithHeight(c, c[t.i].height - 1) = 0

\* the loop body without the comparison of the links
LoopBodyNoLink(t, c) ==
  IF t.ok THEN t.errorLog ELSE Append(t.errorLog, TamperError(c[t.i]))

\* the body of the loop after `await block.validate()` for the block at
\* index t.i (lines 215-239): the errorLog after this iteration
LoopBody(t, c) ==
  LET block == c[t.i]
      p     == FirstWithHeight(c, block.height - 1)
  IN  IF t.ok
      THEN IF block.height > 0 /\ block.previousBlockHash # c[p].hash
           THEN Append(t.errorLog, LinkError(block))
           ELSE t.errorLog
      ELSE Append(t.errorLog, TamperError(block))

\* validateChain(), one continuation: finish the iteration for chain[t.i],
\* then either suspend at the next block's validate() or resolve
ValidateStep(t, c, v) ==
  IF LoopThrows(t, c) THEN [t EXCEPT !.pc = "threw"]
  ELSE IF t.i + 1 <= Len(c)
       THEN [t EXCEPT !.errorLog = LoopBody(t, c), !.i = t.i + 1,
                      !.ok = Validate(c[t.i + 1])]
       ELSE [t EXCEPT !.errorLog = <<>>, !.i = 0, !.ok = FALSE, !.ver = 0,
                      !.ret = Resolution(LoopBody(t, c)),
                      !.returned = TRUE, !.clean = (t.ver = v),
                      !.pc = IF t.op = "validateChain" THEN "resolved" ELSE "then"]

\* does the task have a continuation to put on the microtask queue?
Suspended(t) == t.pc \in {"sha", "validate", "then"}

Requeue(q, id, t) == IF Suspended(t) THEN Append(q, id) ELSE q

\* what a lookup was asked (op, height or hash), the length of the chain when
\* it was called, and what it resolved with: a block or null (found), or the
\* height, or a message
NoReply ==
  [op |-> "", height |-> 0, hash |-> NullHash, len |-> 0, found |-> FALSE,
   block |-> NewBlock(GenesisData), value |-> 0,
   message |-> Message("", [num |-> FALSE, val |-> 0])]

\* ----------------------------------------------------------- construction
\* a construction that runs initializeChain() a second time
InitGenesisTwice ==
  /\ chain = <<>>
  /\ height = -1
  /\ now = 0
  /\ tasks = [k \in 1..2 |-> AddBlockSync("_addBlock", "constructor", NoProof,
                                          NewBlock(GenesisData), <<>>, 0)]
  /\ queue = <<1, 2>>
  /\ last = [op |-> "constructor", elapsed |-> NaN, signature |-> "",
             outcome |-> "", task |-> 1]
  /\ version = 0
  /\ used = [submits |-> 0, validates |-> 0, ticks |-> 0, tampers |-> 0, reads |-> 0]
  /\ reply = NoReply

\* constructor(): chain = [], height = -1, initializeChain() runs _addBlock's
\* synchronous part for the genesis block and suspends at the await
Init ==
  /\ chain = <<>>
  /\ height = -1
  /\ now = 0
  /\ tasks = <<AddBlockSync("_addBlock", "constructor", NoProof,
                            NewBlock(GenesisData), <<>>, 0)>>
  /\ queue = <<1>>
  /\ last = [op |-> "constructor", elapsed |-> NaN, signature |-> "",
             outcome |-> "", task |-> 1]
  /\ version = 0
  /\ used = [submits |-> 0, validates |-> 0, ticks |-> 0, tampers |-> 0, reads |-> 0]
  /\ reply = NoReply

\* ------------------------------------------------------------ client calls
\* the window taken as inclusive
FreshInclusive(currentTime, message) ==
  LessThan(Elapsed(currentTime, message), FreshnessWindow + 1)

\* currentTime - messageTime < 300  (line 124)
Fresh(currentTime, message) ==
  LessThan(Elapsed(currentTime, message), FreshnessWindow)

\* the signature checked before the age of the challenge
SubmitOutcomeVerifyFirst(address, message, signature, currentTime) ==
  CASE Verify(message, address, signature) = "false" -> UnverifiedError
    [] Verify(message, address, signature) = "throw" -> "pending"
    [] OTHER -> IF Fresh(currentTime, message) THEN "resolved" ELSE ExpiredError

\* how submitStar's promise settles (lines 121-140): "resolved" with the
\* block, rejected with one of the two errors, or "pending" for ever when
\* bitcoinMessage.verify throws inside the async executor
SubmitOutcome(address, message, signature, currentTime) ==
  IF Fresh(currentTime, message)
  THEN CASE Verify(message, address, signature) = "true"  -> "resolved"
         [] Verify(message, address, signature) = "false" -> UnverifiedError
         [] OTHER -> "pending"
  ELSE ExpiredError

\* what the most recent submitStar call computed and how it settled:
\* currentTime - messageTime, the library's verdict on the submitted
\* signature, the state of the returned promise, the _addBlock it started
CallRecord(address, message, signature, outcome, task) ==
  [op |-> "submitStar", elapsed |-> Elapsed(now, message),
   signature |-> Verify(message, address, signature),
   outcome |-> outcome, task |-> task]

\* a submitStar that accepts each signed challenge once: a signature seen in
\* an earlier accepted call is answered as expired
SubmitStarConsuming(address, message, signature, star) ==
  LET consumed == \E k \in DOMAIN tasks :
                    /\ tasks[k].caller = "submitStar"
                    /\ tasks[k].proof.signer = signature.signer
      outcome  == IF consumed THEN ExpiredError
                  ELSE SubmitOutcome(address, message, signature, now)
      id       == Len(tasks) + 1
  IN  /\ used' = [used EXCEPT !.submits = @ + 1]
      /\ IF outcome = "resolved"
         THEN /\ tasks' = Append(tasks,
                     AddBlockSync("_addBlock", "submitStar",
                                  ProofOf(message, signature, now),
                                  NewBlock(StarData(address, star)), chain, now))
              /\ queue' = Append(queue, id)
              /\ last' = CallRecord(address, message, signature, outcome, id)
         ELSE /\ last' = CallRecord(address, message, signature, outcome, 0)
              /\ UNCHANGED <<tasks, queue>>
      /\ UNCHANGED <<chain, height, now, version, reply>>

\* submitStar(address, message, signature, star): the executor has no await,
\* so the whole call is one step.  On success it calls _addBlock, which runs
\* to its await, and resolves with the block without waiting for _addBlock.
SubmitStar(address, message, signature, star) ==
  LET outcome == SubmitOutcome(address, message, signature, now)
      id      == Len(tasks) + 1
  IN  /\ used' = [used EXCEPT !.submits = @ + 1]
      /\ IF outcome = "resolved"
         THEN /\ tasks' = Append(tasks,
                     AddBlockSync("_addBlock", "submitStar",
                                  ProofOf(message, signature, now),
                                  NewBlock(StarData(address, star)), chain, now))
              /\ queue' = Append(queue, id)
              /\ last' = CallRecord(address, message, signature, outcome, id)
         ELSE /\ last' = CallRecord(address, message, signature, outcome, 0)
              /\ UNCHANGED <<tasks, queue>>
      /\ UNCHANGED <<chain, height, now, version, reply>>

\* validateChain() called by a client: the executor up to the first await
ValidateChain ==
  LET id == Len(tasks) + 1
      t  == ValidateStart(NewTask("validateChain", "client", NoProof,
                                  NewBlock(GenesisData)), chain, version)
  IN  /\ used.validates < MaxValidates
      /\ used' = [used EXCEPT !.validates = @ + 1]
      /\ tasks' = Append(tasks, t)
      /\ queue' = Requeue(queue, id, t)
      /\ UNCHANGED <<chain, height, now, last, version, reply>>

\* ------------------------------------------------------------- microtasks
\* an append that puts the sealed block in front (unshift for push)
AddBlockResumeUnshift(id) ==
  LET t      == tasks[id]
      sealed == [t.block EXCEPT !.hash = t.digest]
      c      == <<sealed>> \o chain
  IN  /\ chain' = c
      /\ height' = Len(c) - 1
      /\ version' = version + 1
      /\ tasks' = [tasks EXCEPT ![id] =
                     ValidateStart([t EXCEPT !.block = sealed], c, version + 1)]
      /\ queue' = Requeue(Tail(queue), id, tasks'[id])

\* _addBlock after `await SHA256(...)`, lines 71-78: seal, push, set height,
\* and call validateChain(), which runs to its first await
AddBlockResume(id) ==
  LET t      == tasks[id]
      sealed == [t.block EXCEPT !.hash = t.digest]
      c      == Append(chain, sealed)
  IN  /\ chain' = c
      /\ height' = Len(c) - 1
      /\ version' = version + 1
      /\ tasks' = [tasks EXCEPT ![id] =
                     ValidateStart([t EXCEPT !.block = sealed], c, version + 1)]
      /\ queue' = Requeue(Tail(queue), id, tasks'[id])

\* validateChain after `await block.validate()`
ValidateResume(id) ==
  /\ tasks' = [tasks EXCEPT ![id] = ValidateStep(tasks[id], chain, version)]
  /\ queue' = Requeue(Tail(queue), id, tasks'[id])
  /\ UNCHANGED <<chain, height, version>>

\* .then(() => resolve(block)) of line 77; validateChain never rejects, so
\* the .catch of line 78 never runs
AddBlockSettle(id) ==
  /\ tasks' = [tasks EXCEPT ![id].pc = "resolved"]
  /\ queue' = Tail(queue)
  /\ UNCHANGED <<chain, height, version>>

\* block.getBData(): the decoded body
GetBData(block) == Decode(block.body)

\* blockBody.owner, "undefined" for a body without that key
OwnerOf(data) == IF data[1] = "owner" THEN data[2] ELSE "undefined"

\* blockBody.star of a body {owner, star}
StarOf(data) == data[4]

\* getStarsByWalletAddress, one forEach callback after `await b.getBData()`
\* (lines 193-198): the next decoded body is pushed when its owner matches
StarsResume(id) ==
  LET t    == tasks[id]
      body == t.bodies[t.i + 1]
  IN  /\ tasks' = [tasks EXCEPT ![id] =
                     [t EXCEPT !.i = t.i + 1,
                               !.stars = IF OwnerOf(body) = t.address
                                         THEN Append(t.stars, body) ELSE t.stars,
                               !.pc = IF t.i + 1 = Len(t.bodies)
                                      THEN "resolved" ELSE "stars"]]
      /\ queue' = Tail(queue)
      /\ UNCHANGED <<chain, height, version>>

\* run the continuation at the head of the microtask queue
RunMicrotask ==
  /\ queue # <<>>
  /\ LET id == Head(queue)
     IN  CASE tasks[id].pc = "sha"      -> AddBlockResume(id)
           [] tasks[id].pc = "validate" -> ValidateResume(id)
           [] tasks[id].pc = "then"     -> AddBlockSettle(id)
           [] tasks[id].pc = "stars"    -> StarsResume(id)
  /\ UNCHANGED <<now, last, used, reply>>

\* `${address}:${seconds}:starRegistry` (lines 92-95) issued at second t
Challenge(address, t) == Message(address, [num |-> TRUE, val |-> t])

\* ------------------------------------------------------------ environment
\* the wall clock advances
Tick ==
  /\ used.ticks < MaxTicks
  /\ now' = now + TickStep(now)
  /\ used' = [used EXCEPT !.ticks = @ + 1]
  /\ UNCHANGED <<chain, height, tasks, queue, last, version, reply>>

BadHash == <<"overwritten">>

BadBody == Encode(StarData("M", Star("s1")))

\* code outside the class overwrites one field of a stored block
Tamper ==
  /\ used.tampers < MaxTampers
  /\ \E k \in 1..Len(chain) :
        \/ chain' = [chain EXCEPT ![k].hash = BadHash]
        \/ chain' = [chain EXCEPT ![k].previousBlockHash = BadHash]
        \/ chain' = [chain EXCEPT ![k].body = BadBody]
        \/ chain' = [chain EXCEPT ![k].height = @ + 2]
  /\ chain' # chain
  /\ version' = version + 1
  /\ used' = [used EXCEPT !.tampers = @ + 1]
  /\ UNCHANGED <<height, tasks, queue, now, last, reply>>

\* ------------------------------------------------------------------ reads
\* self.chain.filter((p) => p.hash === hash)[0], as an index; 0 when undefined
FirstWithHash(c, hash) ==
  IF \E k \in 1..Len(c) : c[k].hash = hash
  THEN CHOOSE k \in 1..Len(c) :
         /\ c[k].hash = hash
         /\ \A j \in 1..(k - 1) : c[j].hash # hash
  ELSE 0

\* resolve(block) when the filter found one, resolve(null) otherwise
Lookup(op, c, k) ==
  [NoReply EXCEPT !.op = op, !.len = Len(c), !.found = (k # 0),
                  !.block = IF k # 0 THEN c[k] ELSE NewBlock(GenesisData)]

Read == used' = [used EXCEPT !.reads = @ + 1]

\* getChainHeight(), lines 45-49
GetChainHeight ==
  /\ Read
  /\ reply' = [NoReply EXCEPT !.op = "getChainHeight", !.len = Len(chain),
                              !.value = height]
  /\ UNCHANGED <<chain, height, tasks, queue, now, last, version>>

\* requestMessageOwnershipVerification(address), lines 90-99
RequestMessageOwnershipVerification(address) ==
  /\ Read
  /\ reply' = [NoReply EXCEPT !.op = "requestMessageOwnershipVerification",
                              !.len = Len(chain),
                              !.message = Challenge(address, now)]
  /\ UNCHANGED <<chain, height, tasks, queue, now, last, version>>

\* getBlockByHash(hash), lines 150-160
GetBlockByHash(hash) ==
  /\ Read
  /\ reply' = [Lookup("getBlockByHash", chain, FirstWithHash(chain, hash))
                 EXCEPT !.hash = hash]
  /\ UNCHANGED <<chain, height, tasks, queue, now, last, version>>

\* a lookup that takes the block out of the array
GetBlockByHeightTaking(h) ==
  /\ Read
  /\ reply' = [Lookup("getBlockByHeight", chain, FirstWithHeight(chain, h))
                 EXCEPT !.height = h]
  /\ chain' = SelectSeq(chain, LAMBDA b : b.height # h)
  /\ UNCHANGED <<height, tasks, queue, now, last, version>>

\* getBlockByHeight(height), lines 167-178
GetBlockByHeight(h) ==
  /\ Read
  /\ reply' = [Lookup("getBlockByHeight", chain, FirstWithHeight(chain, h))
                 EXCEPT !.height = h]
  /\ UNCHANGED <<chain, height, tasks, queue, now, last, version>>

\* getStarsByWalletAddress(address), lines 186-202: forEach starts one async
\* callback per block, each calls getBData() and suspends at its await;
\* then resolve(stars) runs, with the array the callbacks will push to
GetStarsByWalletAddress(address) ==
  LET id == Len(tasks) + 1
      t  == [NewTask("getStarsByWalletAddress", "client", NoProof,
                     NewBlock(GenesisData))
               EXCEPT !.address = address,
                      !.bodies = [k \in 1..Len(chain) |-> GetBData(chain[k])],
                      !.returned = TRUE,
                      !.pc = IF Len(chain) = 0 THEN "resolved" ELSE "stars"]
  IN  /\ Read
      /\ tasks' = Append(tasks, t)
      /\ queue' = queue \o [k \in 1..Len(chain) |-> id]
      /\ reply' = [NoReply EXCEPT !.op = "getStarsByWalletAddress",
                                  !.len = Len(chain)]
      /\ UNCHANGED <<chain, height, now, last, version>>

\* ---------------------------------------------------------------- clients
\* a client submits anything
Submit ==
  /\ used.submits < MaxAttempts
  /\ \E address \in Addresses, message \in Messages, star \in Stars :
       \E signature \in SignaturesFor(address, message) :
         SubmitStar(address, message, signature, star)

\* a client submits a star with the challenge it was issued, signed by its key
SubmitSignedBy(address) ==
  SubmitStar(address, Challenge(address, 0),
             Sign(address, Challenge(address, 0)), Star("s1"))

SubmitSigned ==
  /\ used.submits < MaxAttempts
  /\ \E address \in Addresses : SubmitSignedBy(address)

\* submissions with arbitrary arguments as the clock advances
Next ==
  \/ Submit
  \/ RunMicrotask
  \/ Tick

Spec == Init /\ [][Next]_vars

\* valid submissions and validations, interleaved
NextChain ==
  \/ SubmitSigned
  \/ ValidateChain
  \/ RunMicrotask

SpecChain == Init /\ [][NextChain]_vars

\* no continuation is pending: every operation started so far has run to
\* its end (the state between two requests of a client that awaits each call)
Quiescent == queue = <<>>

\* the addresses asked about: the submitters and one that never submits
Askers == Addresses \cup {"C"}

\* a read is called between events, when the microtask queue has drained;
\* submissions still arrive while its own continuations are pending
CanRead == Quiescent /\ used.reads + used.validates < MaxReads

ReadHeight == CanRead /\ GetChainHeight

ReadChallenge ==
  CanRead /\ \E address \in Addresses : RequestMessageOwnershipVerification(address)

\* the hash asked for is the stored hash of some block, or one no block has
ReadByHash ==
  /\ CanRead
  /\ \E k \in 0..Len(chain) :
       GetBlockByHash(IF k = 0 THEN BadHash ELSE chain[k].hash)

ReadByHeight == CanRead /\ \E h \in 0..Len(chain) : GetBlockByHeight(h)

ReadStars == CanRead /\ \E address \in Askers : GetStarsByWalletAddress(address)

ReadValidate == CanRead /\ ValidateChain

\* valid submissions that overlap, and the read operations at any moment
NextRead ==
  \/ SubmitSigned
  \/ RunMicrotask
  \/ ReadHeight
  \/ ReadChallenge
  \/ ReadByHash
  \/ ReadByHeight
  \/ ReadStars
  \/ ReadValidate

SpecRead == Init /\ [][NextRead]_vars

\* the event loop runs every queued continuation: the microtask queue is
\* drained before the next event is taken
SpecReadFair == SpecRead /\ WF_vars(RunMicrotask)

SubmitAwaited ==
  /\ Quiescent
  /\ used.submits < MaxSubmits
  /\ SubmitSignedBy("A")

ValidateAwaited == Quiescent /\ ValidateChain

TamperIdle == Quiescent /\ Tamper

\* one client that awaits each call, and blocks overwritten from outside the
\* class between two calls
NextTamper ==
  \/ SubmitAwaited
  \/ ValidateAwaited
  \/ RunMicrotask
  \/ TamperIdle

SpecTamper == Init /\ [][NextTamper]_vars

\* one client reuses one signed challenge: A signs the challenge issued at
\* second 0 once and submits the same (address, message, signature) again
\* and again, each call after the last has run to its end, as time passes
SubmitReused ==
  /\ Quiescent
  /\ used.submits < MaxSubmits
  /\ \E star \in Stars :
       SubmitStar("A", Challenge("A", 0), Sign("A", Challenge("A", 0)), star)

NextReuse == SubmitReused \/ RunMicrotask \/ Tick

SpecReuse == Init /\ [][NextReuse]_vars

\* ------------------------------------------------------------- properties
InChain(block) == \E k \in 1..Len(chain) : chain[k] = block

SubmitCalled == last.op = "submitStar"

\* C1: in no reachable state do two blocks of the chain carry the same
\* height, also when two valid submissions are in flight at the same time.
C1_NoTwoBlocksSameHeight ==
  \A j, k \in 1..Len(chain) : j # k => chain[j].height # chain[k].height

\* C2: an _addBlock whose validation run found at least one error settles by
\* rejecting with the invalid-chain error and its block is not retained.
C2_AppendRolledBackOnInvalidChain ==
  \A id \in DOMAIN tasks :
    LET t == tasks[id]
    IN  (t.op = "_addBlock" /\ t.pc \in {"resolved", "rejected"}
           /\ ErrorsOf(t.ret) # <<>>)
          => (t.pc = "rejected" /\ ~InChain(t.block))

\* C3: on a chain built only by the constructor and submissions, every run of
\* validateChain returns, and returns no error.
C3_ValidateChainReportsNothing ==
  \A id \in DOMAIN tasks :
    /\ tasks[id].pc # "threw"
    /\ tasks[id].returned => ErrorsOf(tasks[id].ret) = <<>>

\* C4: when submitStar's promise has resolved with a block, that block is
\* sealed, is in the chain, and the _addBlock that submitStar started
\* has settled (its validation run is over).
C4_SubmitSettlesAfterAppend ==
  (SubmitCalled /\ last.outcome = "resolved")
    => /\ tasks[last.task].pc = "resolved"
       /\ tasks[last.task].block.hash # NullHash
       /\ InChain(tasks[last.task].block)

\* C5: with a valid signature a challenge aged 299 seconds is accepted and
\* its block is appended as soon as _addBlock resumes; a challenge aged 300
\* seconds or more fails with the expiry error and starts no append.
C5_FreshnessBoundary ==
  SubmitCalled =>
    /\ (last.signature = "true" /\ last.elapsed = Num(299))
         => /\ last.outcome = "resolved"
            /\ last.task \in DOMAIN tasks
            /\ tasks[last.task].pc # "sha" => InChain(tasks[last.task].block)
    /\ (~last.elapsed.nan /\ last.elapsed.val >= 300)
         => (last.outcome = ExpiredError /\ last.task = 0)

C5_Witness ==
  /\ SubmitCalled
  /\ last.signature = "true"
  /\ last.elapsed = Num(299)
  /\ last.outcome = "resolved"
  /\ InChain(tasks[last.task].block)

\* C6: an expired challenge fails with the expiry error whatever the
\* signature is, also one the library cannot decode; a challenge inside the
\* window with a signature that does not verify fails with the
\* signature error; the two errors have different texts.
C6_ErrorPrecedence ==
  /\ ExpiredError # UnverifiedError
  /\ SubmitCalled =>
       /\ (~last.elapsed.nan /\ last.elapsed.val >= 300)
            => last.outcome = ExpiredError
       /\ (~last.elapsed.nan /\ last.elapsed.val < 300 /\ last.signature = "false")
            => last.outcome = UnverifiedError

C6_Witness ==
  /\ SubmitCalled
  /\ last.elapsed = Num(300)
  /\ last.signature = "throw"
  /\ last.outcome = ExpiredError

\* the submission that made block k: a challenge younger than the window,
\* signed over that very message by the key of the block's owner
ProvenOwner(k) ==
  \E id \in DOMAIN tasks :
    /\ tasks[id].caller = "submitStar"
    /\ tasks[id].block = chain[k]
    /\ tasks[id].proof.fresh
    /\ tasks[id].proof.overMessage
    /\ tasks[id].proof.signer = Decode(chain[k].body)[2]

C7_Owned ==
  \A k \in 2..Len(chain) :
    /\ Decode(chain[k].body)[1] = "owner"
    /\ Decode(chain[k].body)[3] = "star"
    /\ ProvenOwner(k)

RejectedSubmit ==
  /\ used'.submits = used.submits + 1
  /\ last'.outcome \in {ExpiredError, UnverifiedError}

\* C7: every block after the genesis block has a body {owner, star} made by a
\* submitStar call that passed the freshness check and the signature check
\* for that owner; a rejected submitStar leaves chain and height unchanged.
C7_OwnershipSafety ==
  /\ []C7_Owned
  /\ [][RejectedSubmit => UNCHANGED <<chain, height>>]_vars

C7_Witness ==
  /\ Len(chain) >= 2
  /\ C7_Owned
  /\ SubmitCalled
  /\ last.outcome = UnverifiedError

\* C8: every block after the first has previousBlockHash equal to the hash of
\* the block stored just before it.
C8_PositionalLinkage ==
  \A k \in 2..Len(chain) : chain[k].previousBlockHash = chain[k - 1].hash

\* the errors the specification asks for on chain c from position k on, in
\* chain order: a tamper error for a block whose hash is not the recomputed
\* one, a link error for a block after the first whose previousBlockHash is
\* not the stored hash of the block before it
RECURSIVE FullReport(_, _)
FullReport(c, k) ==
  IF k > Len(c) THEN <<>>
  ELSE (IF Validate(c[k]) THEN <<>> ELSE <<TamperError(c[k])>>)
         \o (IF k > 1 /\ c[k].previousBlockHash # c[k - 1].hash
             THEN <<LinkError(c[k])>> ELSE <<>>)
         \o FullReport(c, k + 1)

\* the steps in which a run of validateChain resolves, the chain not having
\* changed while it ran
ValidationEnds(id) ==
  /\ id \in DOMAIN tasks => ~tasks[id].returned
  /\ tasks'[id].returned
  /\ tasks'[id].clean

\* C9: validateChain reports every violation: a tamper error for exactly the
\* blocks whose hash differs from the recomputed hash and a link error for
\* exactly the later blocks whose previousBlockHash differs from the stored
\* hash of their predecessor, both for a block that fails both checks.
C9_ReportsEveryViolation ==
  [][\A id \in DOMAIN tasks' :
       ValidationEnds(id) => ErrorsOf(tasks'[id].ret) = FullReport(chain', 1)]_vars

\* chain c is a valid chain but for the stored hash of the block at index h,
\* which was overwritten
OnlyHashOverwritten(c, h) ==
  /\ h \in 1..Len(c)
  /\ ~Validate(c[h])
  /\ c[1].previousBlockHash = NullHash
  /\ \A k \in 1..Len(c) :
       /\ c[k].height = k - 1
       /\ k # h => Validate(c[k])
       /\ (k > 1 /\ k # h + 1) => c[k].previousBlockHash = c[k - 1].hash
       /\ k = h + 1 => c[k].previousBlockHash \in {c[h].hash, SHA256(c[h])}

HashOverwriteReport(c, h) ==
  <<TamperError(c[h])>>
    \o (IF h < Len(c) /\ c[h + 1].previousBlockHash # c[h].hash
        THEN <<LinkError(c[h + 1])>> ELSE <<>>)

\* C10: on a valid chain in which only the stored hash of one block h was
\* overwritten, validateChain returns exactly one tamper error, for h, and
\* one link error for the block after h when its previousBlockHash disagrees
\* with the overwritten hash; nothing for any other height.
C10_CorruptionDetection ==
  [][\A id \in DOMAIN tasks' : \A h \in 1..Len(chain') :
       (ValidationEnds(id) /\ OnlyHashOverwritten(chain', h))
         => ErrorsOf(tasks'[id].ret) = HashOverwriteReport(chain', h)]_vars

C10_Witness ==
  /\ Len(chain) = 4
  /\ OnlyHashOverwritten(chain, 3)
  /\ \E id \in DOMAIN tasks :
       /\ tasks[id].op = "validateChain"
       /\ tasks[id].returned
       /\ tasks[id].clean
       /\ tasks[id].ret.errors = <<TamperError(chain[3]), LinkError(chain[4])>>

\* ------------------------------------------------------------------- C11
\* the star fields of the bodies owned by address, in the order of the bodies
RECURSIVE StarsOwnedBy(_, _)
StarsOwnedBy(bodies, address) ==
  IF bodies = <<>> THEN <<>>
  ELSE IF OwnerOf(Head(bodies)) = address
       THEN <<StarOf(Head(bodies))>> \o StarsOwnedBy(Tail(bodies), address)
       ELSE StarsOwnedBy(Tail(bodies), address)

StarsQuery(t) == t.op = "getStarsByWalletAddress"

\* C11, completeness: from the moment the promise of
\* getStarsByWalletAddress(address) is resolved, its array has one entry for
\* every block owned by address
C11_CompleteAtResolve ==
  \A id \in 1..Len(tasks) :
    StarsQuery(tasks[id]) /\ tasks[id].returned
      => Len(tasks[id].stars) = Len(StarsOwnedBy(tasks[id].bodies, tasks[id].address))

\* C11, payloads: once every callback of the scan has run, the array holds
\* exactly the star fields of the blocks owned by address, in chain order
C11_StarPayloads ==
  \A id \in 1..Len(tasks) :
    StarsQuery(tasks[id]) /\ tasks[id].pc = "resolved"
      => tasks[id].stars = StarsOwnedBy(tasks[id].bodies, tasks[id].address)

\* C11: getStarsByWalletAddress(address) resolves with exactly the star
\* fields of the blocks whose decoded owner is address, in ascending chain
\* order and complete when the promise resolves; the genesis block is
\* skipped and an address that never submitted gets an empty array
C11_OwnerQuery == C11_CompleteAtResolve /\ C11_StarPayloads

\* ------------------------------------------------------------------- C12
\* the constructor's _addBlock has pushed its block
Initialised == tasks[1].pc # "sha"

GenesisPositions == {k \in 1..Len(chain) : Decode(chain[k].body) = GenesisData}

\* C12: once the constructor's initialisation has completed, the first block
\* of the chain is the genesis block, with height 0, the marker body
\* {data: "Genesis Block"} and no previousBlockHash, and the genesis block has
\* been appended exactly once
C12_GenesisInvariant ==
  Initialised =>
    /\ Len(chain) >= 1
    /\ chain[1].height = 0
    /\ Decode(chain[1].body) = GenesisData
    /\ chain[1].previousBlockHash = NullHash
    /\ GenesisPositions = {1}

\* two submissions have been appended behind the genesis block and every
\* operation has run to its end
C12_Witness == Initialised /\ Quiescent /\ Len(chain) = 3

\* ------------------------------------------------------------------- C13
\* the promise of the call has been resolved or rejected
Settled(t) == t.pc \in {"resolved", "rejected"}

\* the calls that suspend: the constructor's _addBlock, one _addBlock per
\* submission, and the standalone validateChain and getStarsByWalletAddress
TaskIds == 1..(1 + MaxAttempts + MaxReads)

\* C13: no operation blocks indefinitely: every call of _addBlock,
\* validateChain and getStarsByWalletAddress that has started eventually
\* settles, whatever calls overlap it
C13_EveryCallSettles ==
  \A id \in TaskIds :
    [](id \in DOMAIN tasks => <>(id \in DOMAIN tasks /\ Settled(tasks[id])))

\* ------------------------------------------------------------------- C14
\* C14: getBlockByHeight(h) resolves with the block at position h of the
\* chain when 0 <= h <= current height and with null otherwise;
\* getBlockByHash(x) resolves with a block whose stored hash is x when there
\* is one and with null otherwise (reply.len is the chain's length at the
\* call; the chain only grows in this specification)
C14_ExactLookups ==
  /\ reply.op = "getBlockByHeight" =>
        IF 0 <= reply.height /\ reply.height <= reply.len - 1
        THEN reply.found /\ reply.block = chain[reply.height + 1]
        ELSE ~reply.found
  /\ reply.op = "getBlockByHash" =>
        IF \E k \in 1..reply.len : chain[k].hash = reply.hash
        THEN reply.found /\ reply.block.hash = reply.hash
        ELSE ~reply.found

\* ------------------------------------------------------------------- C15
\* C15: the genesis block is appended before any other operation is
\* accepted: no _addBlock started by submitStar finds the chain empty, so none
\* assigns height 0 or an empty previousBlockHash to its (non-genesis) block
C15_GenesisFirst ==
  \A id \in DOMAIN tasks :
    tasks[id].caller = "submitStar" =>
      /\ tasks[id].block.height # 0
      /\ tasks[id].block.previousBlockHash # NullHash

\* ------------------------------------------------------------------- C16
\* height == chain.length - 1, and -1 when the chain is empty
C16_HeightIsLength == height = Len(chain) - 1

\* C16: in every reachable state height == chain.length - 1 and the block
\* stored at index i has height field i (index i is position i + 1 here)
C16_ChainShape ==
  /\ C16_HeightIsLength
  /\ \A k \in 1..Len(chain) : chain[k].height = k - 1

\* ------------------------------------------------------------------- C17
IsPrefix(a, b) == Len(a) <= Len(b) /\ SubSeq(b, 1, Len(a)) = a

\* C17: across every step of every operation the chain before the step is a
\* prefix of the chain after it (no block removed, replaced or reordered)
\* and height never decreases
C17_AppendOnly == [][IsPrefix(chain, chain') /\ height' >= height]_vars

\* a block has been appended behind another while a validation is under way
C17_Witness ==
  /\ Len(chain) >= 2
  /\ \E id \in DOMAIN tasks : tasks[id].pc = "validate" /\ tasks[id].i >= 1

\* ------------------------------------------------------------------- C18
\* the step is a call of a read operation: getChainHeight,
\* requestMessageOwnershipVerification, getBlockByHash, getBlockByHeight,
\* getStarsByWalletAddress or a standalone validateChain
ReadCall == used'.reads # used.reads \/ used'.validates # used.validates

\* the step resumes a validateChain (standalone or inside _addBlock) or a
\* callback of getStarsByWalletAddress
ReadResume ==
  /\ queue # <<>>
  /\ tasks[Head(queue)].pc \in {"validate", "stars"}
  /\ Len(tasks') = Len(tasks)
  /\ tasks' # tasks

ChallengeCall ==
  used'.reads # used.reads /\ reply'.op = "requestMessageOwnershipVerification"

\* C18: the read operations are read-only: every step of validateChain,
\* getBlockByHash, getBlockByHeight, getStarsByWalletAddress, getChainHeight
\* and requestMessageOwnershipVerification leaves the chain, the fields of its
\* blocks and height unchanged, and requestMessageOwnershipVerification
\* stores nothing: no state of the object changes
C18_ReadsAreReadOnly ==
  [][/\ (ReadCall \/ ReadResume) => (chain' = chain /\ height' = height)
     /\ ChallengeCall => UNCHANGED <<chain, height, tasks, queue, last>>]_vars

\* a lookup by height has found a block behind the genesis block
C18_Witness ==
  reply.op = "getBlockByHeight" /\ reply.found /\ reply.height >= 1

\* ------------------------------------------------------------------- C19
\* C19: a successful submitStar does not consume the challenge: the same
\* (address, message, signature) is accepted at every call made while
\* elapsed < 300 and is refused, as expired, only from elapsed = 300 on; the
\* k accepted calls append k blocks, no two of them the same
C19_ChallengeReuse ==
  /\ SubmitCalled =>
        /\ LessThan(last.elapsed, FreshnessWindow)
             => last.outcome = "resolved" /\ last.task = Len(tasks)
        /\ last.outcome # "resolved"
             => /\ last.outcome = ExpiredError
                /\ ~LessThan(last.elapsed, FreshnessWindow)
  /\ now < FreshnessWindow => Len(tasks) = 1 + used.submits
  /\ Quiescent =>
        /\ Len(chain) = Len(tasks)
        /\ \A i, j \in 1..Len(chain) : i # j => chain[i] # chain[j]

\* the challenge has been accepted twice and then refused at second 300
C19_Witness ==
  /\ Quiescent
  /\ Len(chain) >= 3
  /\ SubmitCalled
  /\ last.elapsed = Num(FreshnessWindow)
  /\ last.outcome = ExpiredError

\* ------------------------------------------------------------------- C20
\* the message is a challenge of the submitting address, issued at or before
\* the current second and less than 300 seconds ago
BoundAndFresh(address, message, currentTime) ==
  /\ message.addr = address
  /\ ~Elapsed(currentTime, message).nan
  /\ 0 <= Elapsed(currentTime, message).val
  /\ Elapsed(currentTime, message).val < FreshnessWindow

\* C20: submitStar starts the append of a block only if the first field of
\* the message is the address argument and 0 <= elapsed < 300: a message with
\* another address, a timestamp in the future or no parsable timestamp never
\* leads to an appended block
C20_ChallengeBinding ==
  [][\A address \in Addresses, message \in Messages, star \in Stars :
       \A signature \in SignaturesFor(address, message) :
         SubmitStar(address, message, signature, star) /\ last'.task # 0
           => BoundAndFresh(address, message, now)]_vars

\* C20, the unparsable timestamp alone: such a message starts no append
C20_UnparsableRefused ==
  [][\A address \in Addresses, message \in Messages, star \in Stars :
       \A signature \in SignaturesFor(address, message) :
         SubmitStar(address, message, signature, star) /\ last'.task # 0
           => message.ts.num]_vars

====
